---- MODULE Spec2Model ----
(***************************************************************************)
(* A model of pyZOCP's ZOCP node (src/src/zocp.py): the capability tree,   *)
(* the peer registry, the dispatch of transport events in get_message and  *)
(* the node methods that change the tree.  The transport (Pyre) is not     *)
(* part of the repository: it is the environment, which hands events to    *)
(* get_message and takes the frames given to whisper and shout.            *)
(***************************************************************************)
EXTENDS Integers, Sequences, FiniteSets, TLC

(***************************************************************************)
(* Bounds of the model.                                                    *)
(***************************************************************************)
\* node-method calls (set_*, register_*) made in one behaviour
MaxCalls == 1
\* transport events that peers outside the model deliver in one behaviour
MaxEvents == 2
\* the same, for the behaviours of two instances
PairCalls == 1
PairEvents == 1

(***************************************************************************)
(* Python and JSON values.  Every value is a tagged record, so that values *)
(* of different Python types can be compared.                              *)
(***************************************************************************)
Null == [k |-> "null"]
Str(s) == [k |-> "str", s |-> s]
Num(i) == [k |-> "num", n |-> i]
Bool(b) == [k |-> "bool", b |-> b]
List(q) == [k |-> "list", l |-> q]
Tuple(q) == [k |-> "tuple", l |-> q]
Dict(f) == [k |-> "dict", d |-> f]

EmptyFcn == [key \in {} |-> Null]
EmptyDict == Dict(EmptyFcn)

IsDict(v) == v.k = "dict"

\* Python's truth value of v, as `if v:` and `not v` take it
Truthy(v) ==
    CASE v.k = "null" -> FALSE
      [] v.k = "str" -> v.s # ""
      [] v.k = "num" -> v.n # 0
      [] v.k = "bool" -> v.b
      [] v.k \in {"list", "tuple"} -> v.l # <<>>
      [] v.k = "dict" -> DOMAIN v.d # {}

\* None used as a dictionary key (set_object(None) stores one)
NoneKey == "None"

\* d.get(key): the value at key, None when there is none
Get(v, key) == IF key \in DOMAIN v.d THEN v.d[key] ELSE Null

\* d[key] = value on a dict
Put(v, key, value) == Dict((key :> value) @@ v.d)

\* the dict without key
Drop(f, key) == [q \in DOMAIN f \ {key} |-> f[q]]

\* the value at a path of keys; Null when the path leaves the tree
RECURSIVE AtPath(_, _)
AtPath(v, path) ==
    IF path = <<>> THEN v
    ELSE IF IsDict(v) /\ Head(path) \in DOMAIN v.d
         THEN AtPath(v.d[Head(path)], Tail(path))
         ELSE Null

\* whether every key of the path is present
RECURSIVE HasPath(_, _)
HasPath(v, path) ==
    IF path = <<>> THEN TRUE
    ELSE IsDict(v) /\ Head(path) \in DOMAIN v.d
         /\ HasPath(v.d[Head(path)], Tail(path))

\* the tree with the dict at path (which exists) given key |-> value
RECURSIVE PutAt(_, _, _, _)
PutAt(v, path, key, value) ==
    IF path = <<>> THEN Put(v, key, value)
    ELSE Put(v, Head(path), PutAt(v.d[Head(path)], Tail(path), key, value))

(***************************************************************************)
(* Results of code that may raise: exc is "" when the code returned.       *)
(***************************************************************************)
Ok(v) == [exc |-> "", val |-> v]
Raise(e, v) == [exc |-> e, val |-> v]

\* dict_merge(a, b): b merged into a.  Iterating a list or a str b yields its
\* items, and b[item] then raises TypeError; a number, a bool or None is not
\* iterable.  Strings of the model have at most one character.
\* the paths at which dict_merge(a, b), for dicts a and b, executes
\* a[key] = b[key]: the object that was at such a path is no longer in the tree
RECURSIVE Assigned(_, _)
Assigned(a, b) ==
    UNION {IF key \in DOMAIN a.d /\ IsDict(a.d[key]) /\ IsDict(b.d[key])
           THEN {<<key>> \o p : p \in Assigned(a.d[key], b.d[key])}
           ELSE {<<key>>} : key \in DOMAIN b.d}

\* dict_merge without the descent into a[key]: b[key] always replaces a[key]
dict_merge_noDescent(a, b) ==
    IF ~IsDict(a) THEN Ok(b)
    ELSE IF IsDict(b)
    THEN Ok(Dict([key \in DOMAIN a.d \cup DOMAIN b.d |->
            IF key \notin DOMAIN b.d THEN a.d[key] ELSE b.d[key]]))
    ELSE IF b.k \in {"list", "str"}
    THEN IF Truthy(b) THEN Raise("TypeError", a) ELSE Ok(a)
    ELSE Raise("TypeError", a)

RECURSIVE dict_merge(_, _)
dict_merge(a, b) ==
    IF ~IsDict(a) THEN Ok(b)
    ELSE IF IsDict(b)
    THEN Ok(Dict([key \in DOMAIN a.d \cup DOMAIN b.d |->
            IF key \notin DOMAIN b.d THEN a.d[key]
            ELSE IF key \in DOMAIN a.d /\ IsDict(a.d[key]) /\ IsDict(b.d[key])
                 THEN dict_merge(a.d[key], b.d[key]).val
                 ELSE b.d[key]]))
    ELSE IF b.k \in {"list", "str"}
    THEN IF Truthy(b) THEN Raise("TypeError", a) ELSE Ok(a)
    ELSE Raise("TypeError", a)

(***************************************************************************)
(* The wire.  A frame is a byte string: either the text of a JSON value or *)
(* bytes that are no JSON.  json.dumps writes a None key as "null" and a   *)
(* tuple as a list, so what is read back is not always what was written.   *)
(***************************************************************************)
RECURSIVE Wire(_)
Wire(v) ==
    CASE v.k = "dict" ->
            Dict([key \in {IF q = NoneKey THEN "null" ELSE q : q \in DOMAIN v.d} |->
                    IF key = "null" /\ NoneKey \in DOMAIN v.d
                    THEN Wire(v.d[NoneKey]) ELSE Wire(v.d[key])])
      [] v.k \in {"list", "tuple"} ->
            List([i \in DOMAIN v.l |-> Wire(v.l[i])])
      [] OTHER -> v

Text(v) == [json |-> TRUE, val |-> v]
json_dumps(v) == Text(Wire(v))
NotJson == [json |-> FALSE]
json_loads(frame) ==
    IF frame.json THEN Ok(frame.val) ELSE Raise("ValueError", Null)

(***************************************************************************)
(* What a handler does besides changing the node: the frames it gives to   *)
(* the transport and the callbacks it invokes, in the order it does so.    *)
(***************************************************************************)
Whisper(peer, frame) == [e |-> "whisper", to |-> peer, frame |-> frame]
Shout(group, frame) == [e |-> "shout", to |-> group, frame |-> frame]
Callback(name, peer, data) == [e |-> "callback", name |-> name, peer |-> peer, data |-> data]

\* the peer argument of on_modified when the node itself made the change
NoPeer == "None"

\* the node's tree, its registry, what the handler emitted, how it ended, and
\* the paths of the tree at which it stored another object (wr)
Outcome(cap, reg, eff, exc) ==
    [cap |-> cap, reg |-> reg, eff |-> eff, exc |-> exc, wr |-> {}]

\* peer_get(peer, keys) and peer_set(peer, data)
peer_get(peer, keys) == Whisper(peer, json_dumps(Dict("GET" :> keys)))
peer_set(peer, data) == Whisper(peer, json_dumps(Dict("SET" :> data)))
\* peer_get_capability(peer)
peer_get_capability(peer) == peer_get(peer, Null)
\* peer_call(peer, method, *args): args is the tuple of the further arguments
peer_call(peer, method, args) ==
    Whisper(peer, json_dumps(Dict("CALL" :> List(<<method, Tuple(args)>>))))
\* peer_subscribe(peer, signal, sensor)
peer_subscribe(peer, signal, sensor) ==
    Whisper(peer, json_dumps(Dict("SUB" :> List(<<signal, sensor>>))))
\* peer_unsubscribe(peer, signal, sensor): the message it builds is {'SUB': ...}
peer_unsubscribe(peer, signal, sensor) ==
    Whisper(peer, json_dumps(Dict("SUB" :> List(<<signal, sensor>>))))

\* the items `for get_item in data` yields, when data can be iterated
Items(data) ==
    CASE data.k \in {"list", "tuple"} -> data.l
      [] data.k = "dict" ->
            LET RECURSIVE Seq_(_)
                Seq_(S) == IF S = {} THEN <<>>
                           ELSE LET x == CHOOSE y \in S : TRUE
                                IN <<Str(x)>> \o Seq_(S \ {x})
            IN Seq_(DOMAIN data.d)
      [] data.k = "str" -> IF data.s = "" THEN <<>> ELSE <<data>>
      [] OTHER -> <<>>
Iterable(data) == data.k \in {"list", "tuple", "dict", "str"}
Hashable(item) == item.k \notin {"list", "dict"}
\* the key an item is stored under, as json.dumps writes it
KeyText(item) ==
    CASE item.k = "str" -> item.s
      [] item.k = "num" -> ToString(item.n)
      [] item.k = "bool" -> IF item.b THEN "true" ELSE "false"
      [] OTHER -> "null"

\* _handle_GET(data, peer)
_handle_GET(cap, reg, data, peer) ==
    IF ~Truthy(data)
    THEN Outcome(cap, reg, <<Whisper(peer, json_dumps(Dict("MOD" :> cap)))>>, "")
    ELSE IF ~Iterable(data)
            \/ \E i \in DOMAIN Items(data) : ~Hashable(Items(data)[i])
    THEN Outcome(cap, reg, <<>>, "TypeError")
    ELSE LET items == Items(data)
             item(key) == CHOOSE x \in {items[i] : i \in DOMAIN items} : KeyText(x) = key
             ret == Dict([key \in {KeyText(items[i]) : i \in DOMAIN items} |->
                            CASE item(key).k = "str" -> Get(cap, key)
                              [] item(key).k = "null" -> Get(cap, NoneKey)
                              [] OTHER -> Null])
         IN Outcome(cap, reg,
                    << peer_set(peer, data),
                       Whisper(peer, json_dumps(Dict("MOD" :> ret))) >>, "")

\* _handle_SET(data, peer)
_handle_SET(cap, reg, data, peer) ==
    LET m == dict_merge(cap, data)
    IN IF m.exc # "" THEN Outcome(cap, reg, <<>>, m.exc)
       ELSE [Outcome(m.val, reg, <<Callback("on_modified", peer, data)>>, "")
                EXCEPT !.wr = IF IsDict(data) THEN Assigned(cap, data) ELSE {}]

\* _handle_CALL, _handle_SUB, _handle_UNSUB, _handle_REP, _handle_SIG: each
\* returns on its first line
_handle_CALL(cap, reg, data, peer) == Outcome(cap, reg, <<>>, "")
_handle_SUB(cap, reg, data, peer) == Outcome(cap, reg, <<>>, "")
_handle_UNSUB(cap, reg, data, peer) == Outcome(cap, reg, <<>>, "")
_handle_REP(cap, reg, data, peer) == Outcome(cap, reg, <<>>, "")
_handle_SIG(cap, reg, data, peer) == Outcome(cap, reg, <<>>, "")

\* _handle_MOD with the two statements that follow `return` in _handle_SUB
\* run as well: the payload is merged into the node's own tree too
_handle_MOD_mergesLocally(cap, reg, data, peer) ==
    LET old == IF peer \in DOMAIN reg THEN reg[peer] ELSE Null
        m == dict_merge(old, data)
        c == dict_merge(cap, data)
    IN IF m.exc # "" THEN Outcome(cap, reg, <<>>, m.exc)
       ELSE Outcome(c.val, (peer :> m.val) @@ reg,
                    <<Callback("on_peer_modified", peer, data)>>, "")

\* _handle_MOD(data, peer): peers.get(peer) is None for a peer without an entry
_handle_MOD(cap, reg, data, peer) ==
    LET old == IF peer \in DOMAIN reg THEN reg[peer] ELSE Null
        m == dict_merge(old, data)
    IN IF m.exc # "" THEN Outcome(cap, reg, <<>>, m.exc)
       ELSE Outcome(cap, (peer :> m.val) @@ reg,
                    <<Callback("on_peer_modified", peer, data)>>, "")

KnownVerbs == {"GET", "SET", "CALL", "SUB", "UNSUB", "REP", "MOD", "SIG"}

\* the call self._handle_<method>(msg[method], peer, grp) the dispatch makes
Dispatched(method, data, peer) ==
    [e |-> "handler", name |-> "_handle_" \o method, peer |-> peer, data |-> data]

\* one turn of `for method in msg.keys()`.  The class has no handle_<method>
\* attribute, so getattr raises and the bare except raises Exception.
HandleVerb(cap, reg, method, data, peer) ==
    CASE method = "GET" -> _handle_GET(cap, reg, data, peer)
      [] method = "SET" -> _handle_SET(cap, reg, data, peer)
      [] method = "CALL" -> _handle_CALL(cap, reg, data, peer)
      [] method = "SUB" -> _handle_SUB(cap, reg, data, peer)
      [] method = "UNSUB" -> _handle_UNSUB(cap, reg, data, peer)
      [] method = "REP" -> _handle_REP(cap, reg, data, peer)
      [] method = "MOD" -> _handle_MOD(cap, reg, data, peer)
      [] method = "SIG" -> _handle_SIG(cap, reg, data, peer)
      [] OTHER -> Outcome(cap, reg, <<>>, "Exception")

\* the loop over msg.keys(); msg.keys() raises AttributeError when the decoded
\* value is no object.  An exception ends the loop.
RECURSIVE Dispatch(_, _, _, _, _)
Dispatch(cap, reg, msg, methods, peer) ==
    IF ~IsDict(msg) THEN Outcome(cap, reg, <<>>, "AttributeError")
    ELSE IF methods = {} THEN Outcome(cap, reg, <<>>, "")
    ELSE LET method == CHOOSE x \in methods : TRUE
             one == HandleVerb(cap, reg, method, msg.d[method], peer)
             called == IF method \in KnownVerbs
                       THEN <<Dispatched(method, msg.d[method], peer)>>
                       ELSE <<>>
         IN IF one.exc # "" THEN [one EXCEPT !.eff = called \o one.eff]
            ELSE LET rest == Dispatch(one.cap, one.reg, msg, methods \ {method}, peer)
                 IN [Outcome(rest.cap, rest.reg, called \o one.eff \o rest.eff, rest.exc)
                        EXCEPT !.wr = one.wr \cup rest.wr]

(***************************************************************************)
(* Transport events, as recv_multipart returns them: the type, the peer,   *)
(* the group (JOIN, LEAVE, SHOUT) and the remaining frames.                *)
(***************************************************************************)
Event(type, peer, group, frames) ==
    [type |-> type, peer |-> peer, group |-> group, frames |-> frames]

\* the ENTER branch without its test for an entry: the peer's mirror is reset
OnEnter_resetsEntry(cap, reg, ev) ==
    Outcome(cap,
            (ev.peer :> EmptyDict) @@ reg,
            << peer_get_capability(ev.peer),
               Callback("on_peer_enter", ev.peer, Null) >>, "")

\* the EXIT branch without its peers.pop(peer)
OnExit_keepsEntry(cap, reg, ev) ==
    Outcome(cap, reg, <<Callback("on_peer_exit", ev.peer, Null)>>, "")

\* get_message, the ENTER branch
OnEnter(cap, reg, ev) ==
    Outcome(cap,
            IF ev.peer \in DOMAIN reg THEN reg ELSE (ev.peer :> EmptyDict) @@ reg,
            << peer_get_capability(ev.peer),
               Callback("on_peer_enter", ev.peer, Null) >>, "")

\* get_message, the EXIT branch: peers.pop(peer) raises KeyError without an entry
OnExit(cap, reg, ev) ==
    IF ev.peer \in DOMAIN reg
    THEN Outcome(cap, Drop(reg, ev.peer), <<Callback("on_peer_exit", ev.peer, Null)>>, "")
    ELSE Outcome(cap, reg, <<Callback("on_peer_exit", ev.peer, Null)>>, "KeyError")

\* the SHOUT and WHISPER branches with the decoding outside the try: its
\* failure leaves get_message
OnMessage_decodeRaises(cap, reg, ev) ==
    LET cb == IF ev.type = "SHOUT"
              THEN Callback("on_peer_shout", ev.peer, Str(ev.group))
              ELSE Callback("on_peer_whisper", ev.peer, Null)
        dec == IF ev.frames = <<>> THEN Raise("IndexError", Null)
               ELSE json_loads(Head(ev.frames))
    IN IF dec.exc # "" THEN Outcome(cap, reg, <<cb>>, dec.exc)
       ELSE LET r == Dispatch(cap, reg, dec.val,
                              IF IsDict(dec.val) THEN DOMAIN dec.val.d ELSE {}, ev.peer)
            IN [r EXCEPT !.eff = <<cb>> \o r.eff]

\* get_message, from the SHOUT and WHISPER branches on: the callback, then the
\* decoding (whose failure is printed) and the dispatch
OnMessage(cap, reg, ev) ==
    LET cb == IF ev.type = "SHOUT"
              THEN Callback("on_peer_shout", ev.peer, Str(ev.group))
              ELSE Callback("on_peer_whisper", ev.peer, Null)
        dec == IF ev.frames = <<>> THEN Raise("IndexError", Null)
               ELSE json_loads(Head(ev.frames))
    IN IF dec.exc # "" THEN Outcome(cap, reg, <<cb>>, "")
       ELSE LET r == Dispatch(cap, reg, dec.val,
                              IF IsDict(dec.val) THEN DOMAIN dec.val.d ELSE {}, ev.peer)
            IN [r EXCEPT !.eff = <<cb>> \o r.eff]

\* get_message on the event ev
get_message(cap, reg, ev) ==
    CASE ev.type = "ENTER" -> OnEnter(cap, reg, ev)
      [] ev.type = "EXIT" -> OnExit(cap, reg, ev)
      [] ev.type = "JOIN" ->
            Outcome(cap, reg, <<Callback("on_peer_join", ev.peer, Str(ev.group))>>, "")
      [] ev.type = "LEAVE" ->
            Outcome(cap, reg, <<Callback("on_peer_leave", ev.peer, Str(ev.group))>>, "")
      [] ev.type \in {"SHOUT", "WHISPER"} -> OnMessage(cap, reg, ev)
      [] OTHER -> Outcome(cap, reg, <<>>, "")

(***************************************************************************)
(* The nodes and the state.                                                *)
(***************************************************************************)
\* the ZOCP instances of the model
Nodes == {"n1", "n2"}
\* every peer of the transport: the instances and a peer that is none of them
PeerIds == Nodes \cup {"x"}

\* The dict objects a node's capability can be: the dict made once per process
\* for the default argument of __init__, and the dict last given to
\* set_capability.  DefaultDict(n) is the former when n has a process of its own.
DefaultDict(n) == IF n = "n1" THEN "D1" ELSE "D2"
GivenDict(n) == IF n = "n1" THEN "G1" ELSE "G2"
Roots == {DefaultDict(n) : n \in Nodes} \cup {GivenDict(n) : n \in Nodes}
\* an object no capability tree holds any more
Detached == "detached"

VARIABLES
    alive,          \* the instances constructed
    heap,           \* the value of each dict object of Roots
    capability,     \* self.capability: the object it refers to
    _cur_obj,       \* self._cur_obj: the object it refers to, as a root and a path
    _cur_obj_keys,  \* self._cur_obj_keys
    _running,       \* self._running
    peers,          \* self.peers
    socket,         \* the events of other instances waiting at get_socket()
    pc,             \* where the caller of each instance is: "idle", in "run_once",
                    \* in "run", or in run after stop() ("run_stopped")
    entered,        \* history: the peers whose ENTER was handled with no EXIT since
    sub_requests,   \* history: the SUB requests _handle_SUB was given
    calls_left,     \* node-method calls the behaviour may still make
    events_left,    \* events peers outside the model may still deliver
    last            \* history: the last call or event, and what it did

vars == << alive, heap, capability, _cur_obj, _cur_obj_keys, _running, peers,
           socket, pc, entered, sub_requests, calls_left, events_left, last >>

\* the tree self.capability refers to
Tree(n) == heap[capability[n]]

NoEvent == [type |-> "", peer |-> "", group |-> "", frames |-> <<>>]

Last(n, op, ev, args, r, at) ==
    [node |-> n, op |-> op, ev |-> ev, args |-> args, exc |-> r.exc, eff |-> r.eff,
     at |-> at, pre |-> Tree(n), pre_peers |-> peers[n],
     was_running |-> _running[n], pre_all |-> [m \in Nodes |-> Tree(m)],
     pre_scope |-> [obj |-> _cur_obj[n], keys |-> _cur_obj_keys[n]],
     pre_pc |-> pc[n]]

\* __init__ with no capability argument, for each instance of `up`: default[n]
\* is the dict that the default argument of __init__ is in the process of n
InitOf(up, calls, events, sock, default) ==
    /\ alive = up
    /\ heap = [r \in Roots |-> EmptyDict]
    /\ capability = [n \in Nodes |-> default[n]]
    /\ _cur_obj = [n \in Nodes |-> [root |-> default[n], path |-> <<>>]]
    /\ _cur_obj_keys = [n \in Nodes |-> <<>>]
    /\ _running = [n \in Nodes |-> FALSE]
    /\ peers = [n \in Nodes |-> EmptyFcn]
    /\ socket = sock
    /\ pc = [n \in Nodes |-> "idle"]
    /\ entered = [n \in Nodes |-> {}]
    /\ sub_requests = [n \in Nodes |-> {}]
    /\ calls_left = calls
    /\ events_left = events
    /\ last = [node |-> "", op |-> "__init__", ev |-> NoEvent, args |-> <<>>,
               exc |-> "", eff |-> <<>>, at |-> <<>>, pre |-> EmptyDict,
               pre_peers |-> EmptyFcn, was_running |-> FALSE,
               pre_all |-> [m \in Nodes |-> EmptyDict],
               pre_scope |-> [obj |-> [root |-> Detached, path |-> <<>>], keys |-> <<>>],
               pre_pc |-> "idle"]

(***************************************************************************)
(* The transport between instances: a whisper to an instance and a shout   *)
(* (every instance joins ZOCP in __init__) arrive at its socket.           *)
(***************************************************************************)
RECURSIVE Deliver(_, _, _)
Deliver(sock, from, eff) ==
    IF eff = <<>> THEN sock
    ELSE LET x == Head(eff)
             next ==
                CASE x.e = "whisper" /\ x.to \in alive ->
                        [sock EXCEPT ![x.to] =
                            Append(@, [type |-> "WHISPER", peer |-> from, group |-> "",
                                       frames |-> <<x.frame>>])]
                  [] x.e = "shout" ->
                        [m \in Nodes |->
                            IF m \in alive \ {from}
                            THEN Append(sock[m], [type |-> "SHOUT", peer |-> from,
                                                  group |-> x.to, frames |-> <<x.frame>>])
                            ELSE sock[m]]
                  [] OTHER -> sock
         IN Deliver(next, from, Tail(eff))

\* self._cur_obj of every node after the objects at the paths wr of the dict
\* object root were replaced: a reference to a replaced object, or to one
\* beneath it, no longer leads into a tree
IsPrefix(p, q) == Len(p) <= Len(q) /\ SubSeq(q, 1, Len(p)) = p
Relink(cur, root, wr) ==
    [m \in Nodes |->
        IF cur[m].root = root /\ \E p \in wr : IsPrefix(p, cur[m].path)
        THEN [cur[m] EXCEPT !.root = Detached]
        ELSE cur[m]]

(***************************************************************************)
(* Node methods.                                                           *)
(***************************************************************************)
\* a tuple of keys as a Python value
KeysTuple(keys) == Tuple([i \in DOMAIN keys |->
                            IF keys[i] = NoneKey THEN Null ELSE Str(keys[i])])

\* _on_modified(data), peer=None, run after the change: tree is the node's
\* capability then
_on_modified(n, tree, data) ==
    << Callback("on_modified", NoPeer,
                IF _cur_obj_keys[n] # <<>> THEN KeysTuple(_cur_obj_keys[n]) ELSE data) >>
    \o IF _running[n]
       THEN <<Shout("ZOCP", json_dumps(Dict("MOD" :> tree)))>>
       ELSE <<>>

Done(eff) == [exc |-> "", eff |-> eff]
Failed(exc, eff) == [exc |-> exc, eff |-> eff]

\* a call of a node method: how it leaves the state
Call(n, op, args, at, heap2, capability2, cur2, keys2, r) ==
    /\ n \in alive
    /\ pc[n] = "idle"
    /\ calls_left > 0
    /\ heap' = heap2
    /\ capability' = capability2
    /\ _cur_obj' = cur2
    /\ _cur_obj_keys' = keys2
    /\ socket' = Deliver(socket, n, r.eff)
    /\ calls_left' = calls_left - 1
    /\ last' = Last(n, op, NoEvent, args, r, at)
    /\ UNCHANGED << alive, _running, peers, pc, entered, sub_requests, events_left >>

\* self.capability[key] = value; self._on_modified(data={data_key: value})
SetMeta(n, op, key, data_key, value) ==
    LET root == capability[n]
        tree == Put(heap[root], key, value)
    IN Call(n, op, <<value>>, <<key>>, [heap EXCEPT ![root] = tree], capability,
            Relink(_cur_obj, root, {<<key>>}), _cur_obj_keys,
            Done(_on_modified(n, tree, Dict(data_key :> value))))

set_node_name(n, name) == SetMeta(n, "set_node_name", "_name", "_name", name)
set_node_location(n, location) ==
    SetMeta(n, "set_node_location", "_location", "_location", location)
set_node_orientation(n, orientation) ==
    SetMeta(n, "set_node_orientation", "_orientation", "_orientation", orientation)
set_node_scale(n, scale) == SetMeta(n, "set_node_scale", "_scale", "scale", scale)
set_node_matrix(n, matrix) == SetMeta(n, "set_node_matrix", "_matrix", "_matrix", matrix)

\* set_capability(cap): self.capability refers to the caller's dict from now on,
\* self._cur_obj to what it referred to before
set_capability(n, cap) ==
    LET given == GivenDict(n)
    IN Call(n, "set_capability", <<cap>>, <<>>, [heap EXCEPT ![given] = cap],
            [capability EXCEPT ![n] = given],
            Relink(_cur_obj, given, {<<>>}), _cur_obj_keys,
            Done(_on_modified(n, cap, cap)))

\* set_object(name, type); name = NoneKey stands for name=None
set_object(n, name, type) ==
    LET root == capability[n]
        tree == heap[root]
        objects == Get(tree, "objects")
        fresh == Dict("type" :> Str(type))
        cur0 == IF name = NoneKey
                THEN [_cur_obj EXCEPT ![n] = [root |-> root, path |-> <<>>]]
                ELSE _cur_obj
        keys0 == IF name = NoneKey THEN [_cur_obj_keys EXCEPT ![n] = <<>>]
                 ELSE _cur_obj_keys
        exc == CASE ~Truthy(objects) -> ""
                 [] ~IsDict(objects) -> "AttributeError"
                 [] ~Truthy(Get(objects, name)) -> ""
                 [] ~IsDict(objects.d[name]) -> "TypeError"
                 [] OTHER -> ""
        at == CASE ~Truthy(objects) -> <<"objects">>
                [] ~Truthy(Get(objects, name)) -> <<"objects", name>>
                [] OTHER -> <<"objects", name, "type">>
        tree2 == CASE ~Truthy(objects) -> Put(tree, "objects", Dict(name :> fresh))
                   [] ~Truthy(Get(objects, name)) -> PutAt(tree, <<"objects">>, name, fresh)
                   [] OTHER -> PutAt(tree, <<"objects", name>>, "type", Str(type))
    IN IF exc # ""
       THEN Call(n, "set_object", <<Str(name), Str(type)>>, <<>>, heap, capability,
                 cur0, keys0, Failed(exc, <<>>))
       ELSE Call(n, "set_object", <<Str(name), Str(type)>>, at,
                 [heap EXCEPT ![root] = tree2], capability,
                 [Relink(cur0, root, {at}) EXCEPT
                    ![n] = [root |-> root, path |-> <<"objects", name>>]],
                 [keys0 EXCEPT ![n] = <<"objects", name>>], Done(<<>>))

\* the attribute node the register_* methods store: min, max and step are
\* stored under `if min:`, `if max:`, `if step:`
Attribute(value, hint, access, min, max, step) ==
    Dict(("value" :> value) @@ ("typeHint" :> Str(hint)) @@ ("access" :> Str(access))
         @@ (IF Truthy(min) THEN "min" :> min ELSE EmptyFcn)
         @@ (IF Truthy(max) THEN "max" :> max ELSE EmptyFcn)
         @@ (IF Truthy(step) THEN "step" :> step ELSE EmptyFcn))

\* the heap after self._cur_obj[name] = attribute
Stored(n, name, attribute) ==
    IF _cur_obj[n].root = Detached THEN heap
    ELSE [heap EXCEPT ![_cur_obj[n].root] = PutAt(@, _cur_obj[n].path, name, attribute)]

\* the register_* methods that end in self._on_modified(data={'name': ...})
Register(n, op, hint, name, value, access, min, max, step) ==
    LET attribute == Attribute(value, hint, access, min, max, step)
        heap2 == Stored(n, name, attribute)
    IN Call(n, op, <<Str(name), value, Str(access), min, max, step>>,
            _cur_obj_keys[n] \o <<name>>, heap2, capability,
            Relink(_cur_obj, _cur_obj[n].root, {_cur_obj[n].path \o <<name>>}),
            _cur_obj_keys,
            Done(_on_modified(n, heap2[capability[n]], Dict("name" :> attribute))))

register_int(n, name, value, access, min, max, step) ==
    Register(n, "register_int", "int", name, value, access, min, max, step)
register_float(n, name, value, access, min, max, step) ==
    Register(n, "register_float", "float", name, value, access, min, max, step)
register_percent(n, name, value, access, min, max, step) ==
    Register(n, "register_percent", "percent", name, value, access, min, max, step)
register_bool(n, name, value, access) ==
    Register(n, "register_bool", "bool", name, value, access, Null, Null, Null)
register_string(n, name, value, access) ==
    Register(n, "register_string", "string", name, value, access, Null, Null, Null)
register_vec2f(n, name, value, access, min, max, step) ==
    Register(n, "register_vec2f", "vec3f", name, value, access, min, max, step)
register_vec3f(n, name, value, access, min, max, step) ==
    Register(n, "register_vec3f", "vec3f", name, value, access, min, max, step)

\* register_vec4f ends in
\*   if self._running: self.on_modified(data={'name': self.capability[name]})
register_vec4f(n, name, value, access, min, max, step) ==
    LET attribute == Attribute(value, "vec4f", access, min, max, step)
        heap2 == Stored(n, name, attribute)
        tree == heap2[capability[n]]
    IN Call(n, "register_vec4f", <<Str(name), value, Str(access), min, max, step>>,
            _cur_obj_keys[n] \o <<name>>, heap2, capability,
            Relink(_cur_obj, _cur_obj[n].root, {_cur_obj[n].path \o <<name>>}),
            _cur_obj_keys,
            IF ~_running[n] THEN Done(<<>>)
            ELSE IF name \notin DOMAIN tree.d THEN Failed("KeyError", <<>>)
            ELSE Done(<<Callback("on_modified", NoPeer, Dict("name" :> tree.d[name]))>>))

\* the node methods to peers: each builds one message and whispers it
PeerRequest(n, op, args, message) ==
    Call(n, op, args, <<>>, heap, capability, _cur_obj, _cur_obj_keys, Done(<<message>>))

(***************************************************************************)
(* The event loop.                                                         *)
(***************************************************************************)
\* run_once is called: self._running = True, then the loop over the socket
run_once(n) ==
    /\ n \in alive
    /\ pc[n] = "idle"
    /\ pc' = [pc EXCEPT ![n] = "run_once"]
    /\ _running' = [_running EXCEPT ![n] = TRUE]
    /\ last' = Last(n, "run_once", NoEvent, <<>>, Done(<<>>), <<>>)
    /\ UNCHANGED << alive, heap, capability, _cur_obj, _cur_obj_keys, peers, socket,
                    entered, sub_requests, calls_left, events_left >>

\* run_once returns: the poll found nothing left
run_once_return(n) ==
    /\ n \in alive
    /\ pc[n] = "run_once"
    /\ socket[n] = <<>>
    /\ pc' = [pc EXCEPT ![n] = "idle"]
    /\ last' = Last(n, "run_once_return", NoEvent, <<>>, Done(<<>>), <<>>)
    /\ UNCHANGED << alive, heap, capability, _cur_obj, _cur_obj_keys, _running, peers,
                    socket, entered, sub_requests, calls_left, events_left >>

\* run is called: self._running = True, then the loop `while(self._running)`
run(n) ==
    /\ n \in alive
    /\ pc[n] = "idle"
    /\ calls_left > 0
    /\ pc' = [pc EXCEPT ![n] = "run"]
    /\ _running' = [_running EXCEPT ![n] = TRUE]
    /\ calls_left' = calls_left - 1
    /\ last' = Last(n, "run", NoEvent, <<>>, Done(<<>>), <<>>)
    /\ UNCHANGED << alive, heap, capability, _cur_obj, _cur_obj_keys, peers, socket,
                    entered, sub_requests, events_left >>

\* stop() is called while run executes.  The class defines no stop and no
\* statement of it sets self._running to False: the inherited stop ends the
\* transport and leaves the fields of this class as they are.
stop(n) ==
    /\ n \in alive
    /\ pc[n] = "run"
    /\ pc' = [pc EXCEPT ![n] = "run_stopped"]
    /\ last' = Last(n, "stop", NoEvent, <<>>, Done(<<>>), <<>>)
    /\ UNCHANGED << alive, heap, capability, _cur_obj, _cur_obj_keys, _running, peers,
                    socket, entered, sub_requests, calls_left, events_left >>

\* the top of a loop iteration of run after stop(): `while(self._running)`
\* leaves the loop, calls self.stop() and returns when the flag is down, and
\* polls again when it is up
run_loop(n) ==
    /\ n \in alive
    /\ pc[n] = "run_stopped"
    /\ last.op # "run_loop"
    /\ pc' = [pc EXCEPT ![n] = IF _running[n] THEN @ ELSE "idle"]
    /\ last' = Last(n, "run_loop", NoEvent, <<Str(pc[n])>>, Done(<<>>), <<>>)
    /\ UNCHANGED << alive, heap, capability, _cur_obj, _cur_obj_keys, _running, peers,
                    socket, entered, sub_requests, calls_left, events_left >>

\* KeyboardInterrupt or SystemExit in the loop of run: break, self.stop(), return
run_interrupt(n) ==
    /\ n \in alive
    /\ pc[n] \in {"run", "run_stopped"}
    /\ pc' = [pc EXCEPT ![n] = "idle"]
    /\ last' = Last(n, "run_interrupt", NoEvent, <<Str(pc[n])>>, Done(<<>>), <<>>)
    /\ UNCHANGED << alive, heap, capability, _cur_obj, _cur_obj_keys, _running, peers,
                    socket, entered, sub_requests, calls_left, events_left >>

\* the SUB request an event carries, when the dispatch reaches _handle_SUB
SubRequests(ev, r) ==
    IF /\ ev.type \in {"WHISPER", "SHOUT"}
       /\ ev.frames # <<>>
       /\ Head(ev.frames).json
       /\ IsDict(Head(ev.frames).val)
       /\ "SUB" \in DOMAIN Head(ev.frames).val.d
       /\ r.exc = ""
    THEN {[peer |-> ev.peer, data |-> Head(ev.frames).val.d["SUB"]]}
    ELSE {}

\* get_message handles the event ev; an exception leaves run_once, and run
Handle(n, ev, sock) ==
    LET root == capability[n]
    IN \E r \in {get_message(heap[root], peers[n], ev)} :
       /\ heap' = [heap EXCEPT ![root] = r.cap]
       /\ _cur_obj' = Relink(_cur_obj, root, r.wr)
       /\ peers' = [peers EXCEPT ![n] = r.reg]
       /\ socket' = Deliver(sock, n, r.eff)
       /\ pc' = [pc EXCEPT ![n] = IF r.exc # "" THEN "idle" ELSE @]
       /\ entered' = [entered EXCEPT ![n] =
                        CASE ev.type = "ENTER" -> @ \cup {ev.peer}
                          [] ev.type = "EXIT" -> @ \ {ev.peer}
                          [] OTHER -> @]
       /\ sub_requests' = [sub_requests EXCEPT ![n] = @ \cup SubRequests(ev, r)]
       /\ last' = Last(n, "get_message", ev, <<>>, r, <<>>)
       /\ UNCHANGED << alive, capability, _cur_obj_keys, _running, calls_left >>

(***************************************************************************)
(* The inputs.                                                             *)
(***************************************************************************)
AttrNames == {"a"}
AccessStrings == {"r", "rw"}
ObjectNames == {NoneKey, "o"}
\* min, max, step: left out, or given
BoundArgs == { <<Null, Null, Null>>, <<Num(0), Num(1), Num(1)>> }
Vec(len) == List([i \in 1..len |-> Num(0)])
Matrix == List([i \in 1..4 |-> List([j \in 1..4 |-> Num(IF i = j THEN 1 ELSE 0)])])
\* the capability given to set_capability
Caps == { Dict(("a" :> Attribute(Num(7), "int", "r", Null, Null, Null))
               @@ ("b" :> Attribute(Num(1), "int", "rw", Null, Null, Null))) }

\* the keys given to peer_get and the data given to peer_set
GetKeys == List(<<Str("a")>>)
SetData == Dict("a" :> Dict("value" :> Num(1)))

\* the payload frames peers outside the model send
Payloads ==
    { Dict("GET" :> Null),
      Dict("GET" :> List(<<Str("a")>>)),
      Dict("SET" :> Dict("a" :> Dict("value" :> Num(1)))),
      Dict("SET" :> Dict(("a" :> Dict("value" :> Num(1)))
                         @@ ("b" :> Dict("value" :> Num(2))))),
      Dict("SET" :> Num(5)),
      Dict("CALL" :> List(<<Str("m"), List(<<>>)>>)),
      Dict("SUB" :> List(<<Str("a"), Str("a")>>)),
      Dict("UNSUB" :> List(<<Str("a"), Str("a")>>)),
      Dict("REP" :> Dict("a" :> Dict("value" :> Num(1)))),
      Dict("MOD" :> Dict("a" :> Dict("value" :> Num(1)))),
      Dict("SIG" :> List(<<Str("a"), Num(1), List(<<Str("a")>>)>>)),
      Dict("FOO" :> Num(1)),
      EmptyDict,
      Num(5) }
Frames == { <<Text(v)>> : v \in Payloads } \cup { <<NotJson>>, <<>> }

\* the peer outside the model that sends messages
Stranger == "x"
\* the frames it shouts
ShoutFrames ==
    { <<Text(v)>> : v \in { Dict("SET" :> Dict("a" :> Dict("value" :> Num(1)))),
                           Dict("MOD" :> Dict("a" :> Dict("value" :> Num(1)))),
                           Dict("FOO" :> Num(1)) } } \cup { <<NotJson>>, <<>> }

\* the events peers outside the model can deliver to n
Arriving(n) ==
    { Event(type, p, "", <<>>) : type \in {"ENTER", "EXIT"}, p \in PeerIds \ {n} }
    \cup { Event(type, Stranger, "ZOCP", <<>>) : type \in {"JOIN", "LEAVE"} }
    \cup { Event("WHISPER", Stranger, "", f) : f \in Frames }
    \cup { Event("SHOUT", Stranger, "ZOCP", f) : f \in ShoutFrames }

\* what recv_multipart can return at n: the event at the head of those other
\* instances sent (sent), or an event of a peer outside the model
Incoming(n) ==
    { [ev |-> Head(socket[n]), sent |-> TRUE] : i \in IF socket[n] # <<>> THEN {1} ELSE {} }
    \cup { [ev |-> ev, sent |-> FALSE] : ev \in IF events_left > 0 THEN Arriving(n) ELSE {} }

\* run_once and run call get_message, which reads one event and handles it
get_message_call(n) ==
    /\ n \in alive
    /\ pc[n] \in {"run_once", "run"}
    /\ \E in \in Incoming(n) :
            /\ events_left' = IF in.sent THEN events_left ELSE events_left - 1
            /\ Handle(n, in.ev, IF in.sent THEN [socket EXCEPT ![n] = Tail(@)] ELSE socket)

Calls(n) ==
    \/ set_node_name(n, Str("node"))
    \/ set_node_location(n, Vec(3))
    \/ set_node_orientation(n, Vec(3))
    \/ set_node_scale(n, Vec(3))
    \/ set_node_matrix(n, Matrix)
    \/ \E cap \in Caps : set_capability(n, cap)
    \/ \E name \in ObjectNames : set_object(n, name, "Unknown")
    \/ \E name \in AttrNames, access \in AccessStrings, b \in BoundArgs :
            register_int(n, name, Num(7), access, b[1], b[2], b[3])
    \/ \E name \in AttrNames :
            \/ register_float(n, name, Num(2), "rw", Null, Null, Null)
            \/ register_percent(n, name, Num(12), "rw", Null, Null, Null)
            \/ register_bool(n, name, Bool(TRUE), "rw")
            \/ register_string(n, name, Str("s"), "r")
            \/ register_vec2f(n, name, Vec(2), "rw", Null, Null, Null)
            \/ register_vec3f(n, name, Vec(3), "rw", Null, Null, Null)
            \/ register_vec4f(n, name, Vec(4), "rw", Null, Null, Null)
    \/ \E p \in PeerIds \ {n} :
            \/ PeerRequest(n, "peer_get", <<Str(p), GetKeys>>, peer_get(p, GetKeys))
            \/ PeerRequest(n, "peer_set", <<Str(p), SetData>>, peer_set(p, SetData))
            \/ PeerRequest(n, "peer_call", <<Str(p), Str("m"), Num(1)>>,
                           peer_call(p, Str("m"), <<Num(1)>>))
            \/ PeerRequest(n, "peer_subscribe", <<Str(p), Str("a"), Str("a")>>,
                           peer_subscribe(p, Str("a"), Str("a")))
            \/ PeerRequest(n, "peer_unsubscribe", <<Str(p), Str("a"), Str("a")>>,
                           peer_unsubscribe(p, Str("a"), Str("a")))

Next ==
    \E n \in Nodes :
        \/ Calls(n)
        \/ run_once(n)
        \/ run_once_return(n)
        \/ run(n)
        \/ stop(n)
        \/ run_loop(n)
        \/ run_interrupt(n)
        \/ get_message_call(n)

\* one instance, among peers that are not of the model
Init == InitOf({"n1"}, MaxCalls, MaxEvents, [n \in Nodes |-> <<>>],
              [n \in Nodes |-> DefaultDict(n)])
Spec == Init /\ [][Next]_vars

\* two instances, each in a process of its own, that the transport has just
\* announced to each other
InitPair ==
    InitOf(Nodes, PairCalls, PairEvents,
           [n \in Nodes |-> <<Event("ENTER", CHOOSE m \in Nodes : m # n, "", <<>>)>>],
           [n \in Nodes |-> DefaultDict(n)])
SpecPair == InitPair /\ [][Next]_vars

\* two instances constructed in one process, as z1 = ZOCP(); z2 = ZOCP(): the
\* default argument of __init__ is one dict, made when the class was defined
InitProcess ==
    InitOf(Nodes, PairCalls, PairEvents,
           [n \in Nodes |-> <<Event("ENTER", CHOOSE m \in Nodes : m # n, "", <<>>)>>],
           [n \in Nodes |-> DefaultDict("n1")])
SpecProcess == InitProcess /\ [][Next]_vars

(***************************************************************************)
(* What the formulas below read from the history variable last.            *)
(***************************************************************************)
\* the frames the last call or event gave to the transport, in order
Sent == SelectSeq(last.eff, LAMBDA x : x.e \in {"whisper", "shout"})

\* the last step was get_message on an event of this type
Handled(type) == last.op = "get_message" /\ last.ev.type = type
\* the last step was get_message on a WHISPER or SHOUT carrying a JSON object
HandledObject ==
    /\ last.op = "get_message"
    /\ last.ev.type \in {"WHISPER", "SHOUT"}
    /\ last.ev.frames # <<>>
    /\ Head(last.ev.frames).json
    /\ IsDict(Head(last.ev.frames).val)
Message == Head(last.ev.frames).val
\* ... whose sole verb is verb
HandledVerb(verb) == HandledObject /\ DOMAIN Message.d = {verb}

\* the node methods that change the capability tree and report it
Mutators ==
    { "set_node_name", "set_node_location", "set_node_orientation", "set_node_scale",
      "set_node_matrix", "set_capability", "register_int", "register_float",
      "register_percent", "register_bool", "register_string", "register_vec2f",
      "register_vec3f", "register_vec4f" }

\* the paths at which the trees of the model hold attributes
AttributePaths ==
    { <<name>> : name \in AttrNames \cup {"b"} }
    \cup { <<"objects", o, name>> : o \in ObjectNames, name \in AttrNames }
\* the access strings with a w
WritableAccess == {"w", "rw", "wr", "rwe", "we"}
\* tree holds, at path, an attribute whose access has no w
Denied(tree, path) ==
    /\ HasPath(tree, path \o <<"access">>)
    /\ AtPath(tree, path \o <<"access">>).k = "str"
    /\ AtPath(tree, path \o <<"access">>).s \notin WritableAccess

(***************************************************************************)
(* C1.  Access enforcement: when a SET from a peer has been handled, every *)
(* attribute path of its payload whose local access string has no w holds  *)
(* what it held before.                                                    *)
(***************************************************************************)
C1_AccessEnforcement ==
    HandledVerb("SET") =>
        \A path \in AttributePaths :
            (HasPath(Message.d["SET"], path) /\ Denied(last.pre, path))
                => AtPath(Tree(last.node), path) = AtPath(last.pre, path)

(***************************************************************************)
(* C2.  Whole-tree GET: handling a GET with a null payload from p whispers *)
(* to p exactly one message, {REP: the full capability tree}.              *)
(***************************************************************************)
C2_WholeTreeGetRepliesREP ==
    (HandledVerb("GET") /\ Message.d["GET"] = Null) =>
        Sent = << Whisper(last.ev.peer, Text(Dict("REP" :> Wire(Tree(last.node))))) >>

(***************************************************************************)
(* C3.  Subscription fan-out: once SUB [src, sink] from p has been handled,*)
(* every mutation at or beneath src whispers exactly one SET or SIG that   *)
(* targets sink to p.                                                      *)
(***************************************************************************)
\* the frame is a SET or a SIG for the sink
Targets(frame, sink) ==
    /\ frame.json
    /\ IsDict(frame.val)
    /\ \/ /\ DOMAIN frame.val.d = {"SET"}
          /\ IsDict(frame.val.d["SET"])
          /\ sink.k = "str"
          /\ sink.s \in DOMAIN frame.val.d["SET"].d
       \/ /\ DOMAIN frame.val.d = {"SIG"}
          /\ frame.val.d["SIG"].k = "list"
          /\ Len(frame.val.d["SIG"].l) = 3
          /\ frame.val.d["SIG"].l[3].k = "list"
          /\ \E i \in DOMAIN frame.val.d["SIG"].l[3].l : frame.val.d["SIG"].l[3].l[i] = sink
C3_SubscriptionFanOut ==
    \A s \in sub_requests[IF last.node \in Nodes THEN last.node ELSE "n1"] :
        ( /\ last.op \in Mutators
          /\ s.data.k = "list"
          /\ Len(s.data.l) = 2
          /\ s.data.l[1].k = "str"
          /\ IsPrefix(<<s.data.l[1].s>>, last.at) )
        => Len(SelectSeq(last.eff, LAMBDA x : /\ x.e = "whisper"
                                              /\ x.to = s.peer
                                              /\ Targets(x.frame, s.data.l[2]))) = 1

(***************************************************************************)
(* C4.  Mirrors: when two instances have each handled the other's ENTER    *)
(* and no message is in flight, each one's mirror of the other is the      *)
(* other's capability tree (as it is written on the wire).                 *)
(***************************************************************************)
C4_MirrorsConsistent ==
    \A n \in alive : \A m \in alive \ {n} :
        ( /\ n \in entered[m]
          /\ m \in entered[n]
          /\ \A i \in Nodes : socket[i] = <<>> )
        => /\ n \in DOMAIN peers[m]
           /\ peers[m][n] = Wire(Tree(n))

(***************************************************************************)
(* C5.  Local mutation broadcast: every mutating node method invokes       *)
(* on_modified once and then shouts exactly one MOD to ZOCP that carries   *)
(* the full capability tree as it is after the mutation.                   *)
(***************************************************************************)
C5_LocalMutationBroadcast ==
    last.op \in Mutators =>
        /\ last.exc = ""
        /\ Len(last.eff) = 2
        /\ last.eff[1].e = "callback"
        /\ last.eff[1].name = "on_modified"
        /\ last.eff[2] = Shout("ZOCP", Text(Dict("MOD" :> Wire(Tree(last.node)))))

(***************************************************************************)
(* C6.  Peer-exit cleanup: when the EXIT of p has been handled, the peer   *)
(* registry has no entry for p.  (A node holds no subscriptions: the SUB   *)
(* handler stores nothing, so none can refer to p.)                        *)
(***************************************************************************)
C6_PeerExitCleanup ==
    Handled("EXIT") => last.ev.peer \notin DOMAIN peers[last.node]
\* an EXIT of a peer that had an entry has been handled
C6_Witness ==
    /\ Handled("EXIT")
    /\ last.ev.peer \in DOMAIN last.pre_peers
    /\ last.exc = ""

(***************************************************************************)
(* C7.  Registry membership: the registry holds an entry for p exactly     *)
(* when an ENTER of p has been handled with no EXIT of p after it.         *)
(***************************************************************************)
C7_RegistryMembership ==
    \A n \in alive : DOMAIN peers[n] = entered[n]

C9_HandlerTotality ==
    ( /\ last.op = "get_message"
      /\ last.ev.type \in {"ENTER", "EXIT", "JOIN", "LEAVE", "SHOUT", "WHISPER"} )
    => last.exc = ""

(***************************************************************************)
(* C10.  Unknown verb: a WHISPER or SHOUT whose object carries a verb      *)
(* outside GET, SET, CALL, SUB, UNSUB, REP, MOD, SIG changes neither the   *)
(* tree nor the registry, sends nothing, and get_message returns.          *)
(***************************************************************************)
C10_UnknownVerbDropped ==
    (HandledObject /\ DOMAIN Message.d \ KnownVerbs # {}) =>
        /\ Tree(last.node) = last.pre
        /\ peers[last.node] = last.pre_peers
        /\ Sent = <<>>
        /\ last.exc = ""

(***************************************************************************)
(* C11.  Decode error: a WHISPER or SHOUT whose payload frame is missing   *)
(* or is no JSON text changes neither the tree nor the registry, sends     *)
(* nothing, and get_message returns, so that run_once goes on to the next  *)
(* event.                                                                  *)
(***************************************************************************)
\* the last step was get_message on a WHISPER or SHOUT that cannot be decoded
HandledUndecodable ==
    /\ last.op = "get_message"
    /\ last.ev.type \in {"WHISPER", "SHOUT"}
    /\ \/ last.ev.frames = <<>>
       \/ ~Head(last.ev.frames).json
C11_DecodeErrorDropped ==
    HandledUndecodable =>
        /\ last.exc = ""
        /\ Tree(last.node) = last.pre
        /\ peers[last.node] = last.pre_peers
        /\ Sent = <<>>
        /\ pc[last.node] \in {"run_once", "run"}
\* an undecodable frame of a peer that has a registry entry has been handled
C11_Witness ==
    /\ HandledUndecodable
    /\ last.ev.peer \in DOMAIN last.pre_peers
    /\ last.ev.peer \in DOMAIN peers[last.node]

(***************************************************************************)
(* C12.  Unknown peer on an outbound request: peer_get, peer_set,          *)
(* peer_call, peer_subscribe and peer_unsubscribe, called for a peer that  *)
(* has no registry entry, fail and give no message to the transport.       *)
(***************************************************************************)
PeerHelpers == {"peer_get", "peer_set", "peer_call", "peer_subscribe", "peer_unsubscribe"}
C12_UnknownPeerRequestFails ==
    (last.op \in PeerHelpers /\ last.args[1].s \notin DOMAIN last.pre_peers) =>
        /\ last.exc # ""
        /\ Sent = <<>>

(***************************************************************************)
(* C13.  Verb round trip: the message a peer-directed helper whispers,     *)
(* when get_message on the target receives it, is dispatched to the        *)
(* handler of the helper's verb (peer_get: GET, peer_set: SET, peer_call:  *)
(* CALL, peer_subscribe: SUB, peer_unsubscribe: UNSUB), to no other        *)
(* handler, with the payload the caller gave.                              *)
(***************************************************************************)
\* the verb of a helper and the payload its caller gave, as JSON carries it
VerbOf(op) ==
    CASE op = "peer_get" -> "GET"
      [] op = "peer_set" -> "SET"
      [] op = "peer_call" -> "CALL"
      [] op = "peer_subscribe" -> "SUB"
      [] op = "peer_unsubscribe" -> "UNSUB"
Supplied ==
    CASE last.op \in {"peer_get", "peer_set"} -> Wire(last.args[2])
      [] last.op = "peer_call" -> List(<<last.args[2], List(Tail(Tail(last.args)))>>)
      [] OTHER -> List(<<last.args[2], last.args[3]>>)
\* what get_message does with the frame at a target that has just been constructed
Received(frame, from) ==
    get_message(EmptyDict, EmptyFcn, Event("WHISPER", from, "", <<frame>>))
C13_VerbRoundTrip ==
    last.op \in PeerHelpers =>
        /\ Len(Sent) = 1
        /\ Sent[1].e = "whisper"
        /\ Sent[1].to = last.args[1].s
        /\ SelectSeq(Received(Sent[1].frame, last.node).eff, LAMBDA x : x.e = "handler")
                = << Dispatched(VerbOf(last.op), Supplied, last.node) >>

(***************************************************************************)
(* C14.  Shutdown: once stop() has been called while run() executes, the   *)
(* top of the next loop iteration sees the request and run() returns.      *)
(***************************************************************************)
C14_StopEndsRun ==
    (last.op = "run_loop" /\ last.args = <<Str("run_stopped")>>) => pc[last.node] = "idle"

(***************************************************************************)
(* C15.  Fresh tree per node: a node constructed without a capability      *)
(* argument has an empty tree at construction, and a node method of one    *)
(* node leaves the capability tree of every other node as it was.          *)
(***************************************************************************)
\* the node methods that write to the capability tree
FacadeOps == Mutators \cup {"set_object"}
C15_FreshTreePerNode ==
    /\ last.op = "__init__" => \A n \in alive : Tree(n) = EmptyDict
    /\ last.op \in FacadeOps =>
            \A m \in alive \ {last.node} : Tree(m) = last.pre_all[m]

(***************************************************************************)
(* C16.  Partial SET: when the payload of a SET from p covers attribute    *)
(* paths whose access has a w and paths whose access has none, the former  *)
(* hold the payload's values afterwards, the latter are unchanged, and     *)
(* on_modified is invoked with the peer p.                                 *)
(***************************************************************************)
\* tree holds, at path, an attribute whose access has a w
Allowed(tree, path) ==
    /\ HasPath(tree, path \o <<"access">>)
    /\ AtPath(tree, path \o <<"access">>).k = "str"
    /\ AtPath(tree, path \o <<"access">>).s \in WritableAccess
\* node holds what the payload gives for it
Holds(node, given) ==
    IF IsDict(given)
    THEN IsDict(node) /\ \A key \in DOMAIN given.d : Get(node, key) = given.d[key]
    ELSE node = given
C16_PartialSet ==
    ( /\ HandledVerb("SET")
      /\ \E path \in AttributePaths :
            HasPath(Message.d["SET"], path) /\ Allowed(last.pre, path)
      /\ \E path \in AttributePaths :
            HasPath(Message.d["SET"], path) /\ Denied(last.pre, path) )
    => /\ \A path \in AttributePaths :
            /\ (HasPath(Message.d["SET"], path) /\ Allowed(last.pre, path))
                    => Holds(AtPath(Tree(last.node), path), AtPath(Message.d["SET"], path))
            /\ (HasPath(Message.d["SET"], path) /\ Denied(last.pre, path))
                    => AtPath(Tree(last.node), path) = AtPath(last.pre, path)
       /\ \E i \in DOMAIN last.eff :
            /\ last.eff[i].e = "callback"
            /\ last.eff[i].name = "on_modified"
            /\ last.eff[i].peer = last.ev.peer

(***************************************************************************)
(* C17.  Scope reset: set_object without a name makes the root the current *)
(* insertion scope and creates no entry under objects.                     *)
(***************************************************************************)
C17_ScopeReset ==
    (last.op = "set_object" /\ last.args[1] = Str(NoneKey)) =>
        /\ Tree(last.node) = last.pre
        /\ _cur_obj[last.node] = [root |-> capability[last.node], path |-> <<>>]
        /\ _cur_obj_keys[last.node] = <<>>

(***************************************************************************)
(* C18.  Attribute registration result: after register_T(name, value,      *)
(* access, min, max, step) the node at name in the current insertion scope *)
(* is exactly {value, typeHint: T, access} and each of min, max and step   *)
(* that the caller gave, a bound of 0 included.                            *)
(***************************************************************************)
TypeOf(op) ==
    CASE op = "register_int" -> "int"
      [] op = "register_float" -> "float"
      [] op = "register_percent" -> "percent"
      [] op = "register_bool" -> "bool"
      [] op = "register_string" -> "string"
      [] op = "register_vec2f" -> "vec2f"
      [] op = "register_vec3f" -> "vec3f"
      [] op = "register_vec4f" -> "vec4f"
\* the attribute node of the last call: args is <<name, value, access, min, max, step>>
Registered ==
    Dict(("value" :> last.args[2]) @@ ("typeHint" :> Str(TypeOf(last.op)))
         @@ ("access" :> last.args[3])
         @@ (IF last.args[4] # Null THEN "min" :> last.args[4] ELSE EmptyFcn)
         @@ (IF last.args[5] # Null THEN "max" :> last.args[5] ELSE EmptyFcn)
         @@ (IF last.args[6] # Null THEN "step" :> last.args[6] ELSE EmptyFcn))
RegisterOps ==
    { "register_int", "register_float", "register_percent", "register_bool",
      "register_string", "register_vec2f", "register_vec3f", "register_vec4f" }
C18_RegisteredAttribute ==
    last.op \in RegisterOps
    => /\ HasPath(Tree(last.node), last.at)
       /\ AtPath(Tree(last.node), last.at) = Registered

(***************************************************************************)
(* C19.  MOD handling frame: handling a MOD from p merges the payload into *)
(* the mirror of p and invokes on_peer_modified(p, payload); the local     *)
(* tree, the current insertion scope and the mirrors of the other peers    *)
(* stay as they were, and nothing is sent.                                 *)
(***************************************************************************)
C19_ModFrame ==
    (HandledVerb("MOD") /\ last.exc = "") =>
        /\ last.ev.peer \in DOMAIN peers[last.node]
        /\ peers[last.node][last.ev.peer] =
                dict_merge(IF last.ev.peer \in DOMAIN last.pre_peers
                           THEN last.pre_peers[last.ev.peer] ELSE Null,
                           Message.d["MOD"]).val
        /\ SelectSeq(last.eff, LAMBDA x : x.e = "callback" /\ x.name = "on_peer_modified")
                = << Callback("on_peer_modified", last.ev.peer, Message.d["MOD"]) >>
        /\ Tree(last.node) = last.pre
        /\ _cur_obj[last.node] = last.pre_scope.obj
        /\ _cur_obj_keys[last.node] = last.pre_scope.keys
        /\ \A q \in PeerIds \ {last.ev.peer} :
                /\ q \in DOMAIN peers[last.node] <=> q \in DOMAIN last.pre_peers
                /\ q \in DOMAIN last.pre_peers => peers[last.node][q] = last.pre_peers[q]
        /\ Sent = <<>>
\* a MOD of a peer that has a mirror has been handled, the tree being non-empty
C19_Witness ==
    /\ HandledVerb("MOD")
    /\ last.exc = ""
    /\ last.ev.peer \in DOMAIN last.pre_peers
    /\ last.pre # EmptyDict

(***************************************************************************)
(* C20.  Keyed GET: handling a GET with a list of keys from p whispers to  *)
(* p exactly one message, {REP: each requested key with the subtree the    *)
(* local tree has for it}, sends nothing else, and leaves the local tree   *)
(* as it was.                                                              *)
(***************************************************************************)
\* the keys of a list of strings
KeysOf(list) == {list.l[i].s : i \in DOMAIN list.l}
C20_KeyedGet ==
    ( /\ HandledVerb("GET")
      /\ Message.d["GET"].k = "list"
      /\ Message.d["GET"].l # <<>>
      /\ \A i \in DOMAIN Message.d["GET"].l : Message.d["GET"].l[i].k = "str" )
    => /\ Sent = << Whisper(last.ev.peer,
                            Text(Dict("REP" :> Dict([key \in KeysOf(Message.d["GET"]) |->
                                                        Wire(Get(last.pre, key))])))) >>
       /\ Tree(last.node) = last.pre

(***************************************************************************)
(* C21.  Modified-event payload: every set_node_* and register_* call      *)
(* invokes on_modified with a payload that names the key written and       *)
(* carries its new value: merging the payload into the tree as it was      *)
(* before the call gives the tree as it is after it.                       *)
(***************************************************************************)
SetMetaOps ==
    { "set_node_name", "set_node_location", "set_node_orientation", "set_node_scale",
      "set_node_matrix" }
\* the payloads the last call gave to on_modified
Reported ==
    SelectSeq(last.eff, LAMBDA x : x.e = "callback" /\ x.name = "on_modified")
C21_ModifiedPayloadDescribesChange ==
    last.op \in SetMetaOps \cup RegisterOps =>
        /\ last.exc = ""
        /\ Len(Reported) = 1
        /\ dict_merge(last.pre, Reported[1].data).exc = ""
        /\ dict_merge(last.pre, Reported[1].data).val = Tree(last.node)

(***************************************************************************)
(* C22.  Arrival-order processing: run_once handles every event pending at *)
(* the socket and then returns: when a call of run_once has ended, it has  *)
(* returned without raising and none of the events that were delivered to  *)
(* the node is left unhandled.                                             *)
(***************************************************************************)
\* the last step ended a call of run_once
RunOnceEnded ==
    /\ last.op \in {"get_message", "run_once_return"}
    /\ last.pre_pc = "run_once"
    /\ pc[last.node] = "idle"
C22_RunOnceHandlesAllPending ==
    RunOnceEnded =>
        /\ last.exc = ""
        /\ socket[last.node] = <<>>

(***************************************************************************)
(* C23.  Merge idempotence: merging s into t with dict_merge a second time *)
(* gives the tree the first merge gave, and the keys of t that s does not  *)
(* mention keep their values.  Checked where the node applies dict_merge:  *)
(* t is its capability tree and s the payload of a SET.                    *)
(***************************************************************************)
\* r has, for every key of t that s does not mention, the value t has
RECURSIVE Kept(_, _, _)
Kept(t, s, r) ==
    /\ IsDict(r)
    /\ \A key \in DOMAIN t.d :
            /\ key \in DOMAIN r.d
            /\ key \notin DOMAIN s.d => r.d[key] = t.d[key]
            /\ (key \in DOMAIN s.d /\ IsDict(t.d[key]) /\ IsDict(s.d[key]))
                    => Kept(t.d[key], s.d[key], r.d[key])
\* trees to merge, besides those the node reaches: empty, flat, nested, and
\* with an object where the other has a value
MergeTrees ==
    { EmptyDict,
      Dict("a" :> Num(1)),
      Dict("a" :> Dict("value" :> Num(1))),
      Dict("a" :> Dict(("value" :> Num(7)) @@ ("access" :> Str("r")))),
      Dict(("a" :> Dict("value" :> Num(2))) @@ ("b" :> List(<<Num(0)>>))),
      Dict("objects" :> Dict("o" :> Dict("a" :> Dict("value" :> Num(1))))),
      Dict("objects" :> Dict(("o" :> Dict("type" :> Str("Unknown"))) @@ ("p" :> Num(1)))) }
\* merging s into t twice gives what merging it once gives, and keeps the
\* keys of t that s does not mention
Idempotent(t, s) ==
    /\ dict_merge(t, s).exc = ""
    /\ dict_merge(dict_merge(t, s).val, s) = dict_merge(t, s)
    /\ Kept(t, s, dict_merge(t, s).val)
C23_MergeIdempotent ==
    /\ (HandledVerb("SET") /\ IsDict(Message.d["SET"])) =>
            /\ last.exc = ""
            /\ dict_merge(last.pre, Message.d["SET"]).val = Tree(last.node)
            /\ Idempotent(last.pre, Message.d["SET"])
    /\ last.op = "__init__" =>
            \A t \in MergeTrees : \A s \in MergeTrees : Idempotent(t, s)
\* a SET has been merged into a tree that had, at a key of the payload, an
\* object with more keys than the payload gives, and had another key besides
C23_Witness ==
    /\ HandledVerb("SET")
    /\ IsDict(Message.d["SET"])
    /\ \E key \in DOMAIN Message.d["SET"].d :
            /\ key \in DOMAIN last.pre.d
            /\ IsDict(last.pre.d[key])
            /\ IsDict(Message.d["SET"].d[key])
            /\ DOMAIN last.pre.d[key].d \ DOMAIN Message.d["SET"].d[key].d # {}
    /\ DOMAIN last.pre.d \ DOMAIN Message.d["SET"].d # {}

(***************************************************************************)
(* C24.  Insertion scope stays inside the tree: the current insertion      *)
(* scope of a node is the object its capability tree holds at the current  *)
(* scope path, so that the attribute registered next is found at that path *)
(* in the tree get_capability returns.                                     *)
(***************************************************************************)
C24_ScopeInsideTree ==
    \A n \in alive :
        /\ _cur_obj[n].root = capability[n]
        /\ _cur_obj[n].path = _cur_obj_keys[n]
        /\ HasPath(Tree(n), _cur_obj_keys[n])

====
